---- MODULE Spec2Model ----
(***************************************************************************)
(* temppathlib: scoped temporary paths over pathlib / shutil / tempfile.   *)
(* One instance of removing_tree, TmpDirIfNecessary, TemporaryDirectory or  *)
(* NamedTemporaryFile is constructed and driven through its methods, over  *)
(* a small filesystem that other programs (Ext* actions) change at any     *)
(* time.                                                                   *)
(***************************************************************************)
EXTENDS Naturals, Sequences, FiniteSets, TLC

\* How many distinct random names tempfile.mkdtemp can draw per prefix.
MaxRnd == 2

(***************************************************************************)
(* Python values that reach the constructors.                              *)
(* A str is a sequence of tokens: path components and "/" separators.      *)
(* A pathlib.Path is the sequence of its parts.                            *)
(***************************************************************************)
None == [type |-> "NoneType"]

Str(s) == [type |-> "str", val |-> s]

PathV(parts) == [type |-> "Path", parts |-> parts]

IntV == [type |-> "int"]

RECURSIVE Split(_)
\* pathlib.Path(s) / the OS path lookup: the components between separators,
\* empty components (doubled or trailing separators) dropped.
Split(s) ==
  IF s = <<>> THEN <<>>
  ELSE IF Head(s) = "/" THEN Split(Tail(s))
  ELSE <<Head(s)>> \o Split(Tail(s))

RECURSIVE Join(_)
\* str(path) of a pathlib.Path: the parts joined by single separators.
Join(parts) ==
  IF Len(parts) = 0 THEN <<".">>
  ELSE IF Len(parts) = 1 THEN parts
  ELSE <<Head(parts), "/">> \o Join(Tail(parts))

\* pathlib.Path(s) for a str s.
PathOfStr(s) == PathV(Split(s))

\* str(v) as the code applies it to a Path or to None.
str(v) == IF v = None THEN <<"None">> ELSE Join(v.parts)

(***************************************************************************)
(* The filesystem: every path of the universe is absent, a directory or a  *)
(* regular file.                                                           *)
(***************************************************************************)
\* tempfile.gettempdir(): the platform's default temporary root.
gettempdir == PathV(<<"tmp">>)

DefaultPrefix == "tmp"

Prefixes == {DefaultPrefix, "job-"}

\* The names mkdtemp can generate with a prefix: prefix + random part.
GenNames(prefix) == {prefix \o ToString(i) : i \in 1..MaxRnd}

BaseDir == <<"base">>

\* The suffixes a temporary file's name can end with ("" when none is given).
Suffixes == {"", ".txt"}

\* The names tempfile.NamedTemporaryFile can generate: prefix + random part
\* + suffix.
GenFileNames(prefix, suffix) == {n \o suffix : n \in GenNames(prefix)}

ChildNames ==
  {"p"} \cup UNION {GenFileNames(pre, suf) : pre \in Prefixes, suf \in Suffixes}

AllPaths ==
  {<<"tmp">>, BaseDir, <<"None">>}
    \cup {<<d, n>> : d \in {"tmp", "base"}, n \in ChildNames}

Kinds == {"absent", "dir", "file"}

IsPrefixOf(p, q) == Len(p) <= Len(q) /\ SubSeq(q, 1, Len(p)) = p

Parent(p) == SubSeq(p, 1, Len(p) - 1)

\* Strict ancestors of p below the root.
Ancestors(p) == {SubSeq(p, 1, k) : k \in 1..(Len(p) - 1)}

KindOf(f, p) == IF p \in DOMAIN f THEN f[p] ELSE "absent"

\* pathlib.Path.exists()
exists(f, path) == KindOf(f, path.parts) # "absent"

\* The outcome of one platform call: the filesystem after it and the
\* exception it raised ("ok" when it returned).
FsRes(f, e) == [fs |-> f, err |-> e]

\* shutil.rmtree(s) with the default onerror (raise).
rmtree(f, s) ==
  LET p == Split(s) IN
  CASE KindOf(f, p) = "absent" -> FsRes(f, "FileNotFoundError")
    [] KindOf(f, p) = "file" -> FsRes(f, "NotADirectoryError")
    [] OTHER ->
         FsRes([q \in DOMAIN f |-> IF IsPrefixOf(p, q) THEN "absent" ELSE f[q]], "ok")

\* pathlib.Path.mkdir(exist_ok=True, parents=True)
mkdir(f, path) ==
  LET p == path.parts IN
  CASE KindOf(f, p) = "dir" -> FsRes(f, "ok")
    [] KindOf(f, p) = "file" -> FsRes(f, "FileExistsError")
    [] \E a \in Ancestors(p) : KindOf(f, a) = "file" -> FsRes(f, "NotADirectoryError")
    [] OTHER ->
         FsRes([q \in DOMAIN f |-> IF IsPrefixOf(q, p) THEN "dir" ELSE f[q]], "ok")

\* The names tempfile.mkdtemp may still pick under directory dir.
FreshNames(f, prefix, dir) ==
  LET pre == IF prefix = None THEN DefaultPrefix ELSE prefix.val
      d == IF dir = None THEN gettempdir.parts ELSE Split(dir.val)
  IN {n \in GenNames(pre) : KindOf(f, Append(d, n)) = "absent"}

\* tempfile.mkdtemp(prefix=prefix, dir=dir) drawing the random name n:
\* the new directory's name as a str in field name.
mkdtemp(f, prefix, dir, n) ==
  LET d == IF dir = None THEN gettempdir.parts ELSE Split(dir.val)
      new == Append(d, n)
  IN CASE KindOf(f, d) = "absent" -> FsRes(f, "FileNotFoundError") @@ [name |-> <<>>]
       [] KindOf(f, d) = "file" -> FsRes(f, "NotADirectoryError") @@ [name |-> <<>>]
       [] OTHER -> FsRes([f EXCEPT ![new] = "dir"], "ok") @@ [name |-> Join(new)]

\* The random part of a generated name.
RandomParts == {ToString(i) : i \in 1..MaxRnd}

\* The name tempfile gives a temporary file: prefix ("tmp" when None) +
\* random part + suffix (nothing when None).
FileName(prefix, suffix, rnd) ==
  (IF prefix = None THEN DefaultPrefix ELSE prefix.val)
    \o rnd \o (IF suffix = None THEN "" ELSE suffix.val)

\* The random parts tempfile.NamedTemporaryFile may still pick under
\* directory dir.
FreshFileNames(f, prefix, suffix, dir) ==
  LET d == IF dir = None THEN gettempdir.parts ELSE Split(dir.val)
  IN {rnd \in RandomParts :
        KindOf(f, Append(d, FileName(prefix, suffix, rnd))) = "absent"}

\* tempfile.NamedTemporaryFile(suffix=, prefix=, dir=, delete=) drawing the
\* random part n: the file is created and opened; field tmpfile is the
\* wrapper object (its name, whether close was called on it, its delete flag).
tempfile_NamedTemporaryFile(f, suffix, prefix, dir, delete, n) ==
  LET d == IF dir = None THEN gettempdir.parts ELSE Split(dir.val)
      new == Append(d, FileName(prefix, suffix, n))
      closer(name) == [name |-> name, close_called |-> FALSE, delete |-> delete]
  IN CASE KindOf(f, d) = "absent" ->
            FsRes(f, "FileNotFoundError") @@ [tmpfile |-> closer(<<>>)]
       [] KindOf(f, d) = "file" ->
            FsRes(f, "NotADirectoryError") @@ [tmpfile |-> closer(<<>>)]
       [] OTHER ->
            FsRes([f EXCEPT ![new] = "file"], "ok") @@ [tmpfile |-> closer(Join(new))]

\* os.unlink(s).  Unlinking a name that is gone raises FileNotFoundError in
\* the tempfile of the Python versions setup.py lists and is swallowed by
\* later ones: tolerant tells which.
unlink(f, s, tolerant) ==
  LET p == Split(s) IN
  CASE KindOf(f, p) = "absent" ->
         FsRes(f, IF tolerant THEN "ok" ELSE "FileNotFoundError")
    [] KindOf(f, p) = "dir" -> FsRes(f, "IsADirectoryError")
    [] OTHER -> FsRes([f EXCEPT ![p] = "absent"], "ok")

\* tempfile's close of the wrapper object: the first call closes the stream
\* and, when delete is set, unlinks the name; later calls do nothing.
tempfile_close(tmpfile, f, tolerant) ==
  IF ~tmpfile.close_called
  THEN LET closed == [tmpfile EXCEPT !.close_called = TRUE] IN
       IF tmpfile.delete
       THEN unlink(f, tmpfile.name, tolerant) @@ [tmpfile |-> closed]
       ELSE FsRes(f, "ok") @@ [tmpfile |-> closed]
  ELSE FsRes(f, "ok") @@ [tmpfile |-> tmpfile]

(***************************************************************************)
(* The methods, as functions of the instance, the filesystem and (where a  *)
(* random name is drawn) the draw n.  Each gives the instance and the      *)
(* filesystem after the call, the exception raised ("ok" when the call     *)
(* returned), the value returned and the platform calls made, in order.    *)
(***************************************************************************)
Call(fn, arg) == [fn |-> fn, arg |-> arg]

Result(self_, f, e, ret, calls) ==
  [self |-> self_, fs |-> f, err |-> e, ret |-> ret, calls |-> calls]

NoObj == [cls |-> "none"]

\* A raise leaves the instance and the filesystem as they were.
Raise(self_, f, e, calls) == Result(self_, f, e, None, calls)

---------------------------------------------------------------------------
\* removing_tree.__init__ storing whatever it is given.
removing_tree_init_unchecked(path) ==
  IF path.type = "str"
  THEN Result([path |-> PathOfStr(path.val)], <<>>, "ok", None, <<>>)
  ELSE Result([path |-> path], <<>>, "ok", None, <<>>)

\* removing_tree.__init__
removing_tree_init(path) ==
  CASE path.type = "str" ->
         Result([path |-> PathOfStr(path.val)], <<>>, "ok", None, <<>>)
    [] path.type = "Path" -> Result([path |-> path], <<>>, "ok", None, <<>>)
    [] OTHER -> Raise(NoObj, <<>>, "ValueError", <<>>)

\* removing_tree.__enter__ removing the target on entry already.
removing_tree_enter_removing(self_, f) ==
  LET r == rmtree(f, str(self_.path)) IN
  Result(self_, r.fs, "ok", self_.path, <<Call("rmtree", str(self_.path))>>)

\* removing_tree.__enter__
removing_tree_enter(self_, f) == Result(self_, f, "ok", self_.path, <<>>)

\* removing_tree.__exit__ without the existence test.
removing_tree_exit_unchecked(self_, f) ==
  LET r == rmtree(f, str(self_.path)) IN
  Result(self_, r.fs, r.err, None, <<Call("rmtree", str(self_.path))>>)

\* removing_tree.__exit__
removing_tree_exit(self_, f) ==
  IF exists(f, self_.path)
  THEN LET r == rmtree(f, str(self_.path)) IN
       Result(self_, r.fs, r.err, None,
              <<Call("exists", str(self_.path)), Call("rmtree", str(self_.path))>>)
  ELSE Result(self_, f, "ok", None, <<Call("exists", str(self_.path))>>)

---------------------------------------------------------------------------
ValueError == [type |-> "ValueError"]

\* The instance itself, as __enter__ returns it.
Self == [type |-> "self"]

\* The base_tmp_dir checks shared by TmpDirIfNecessary.__init__ and
\* TemporaryDirectory.__init__: the stored value, or ValueError.
base_tmp_dir_of(base_tmp_dir) ==
  CASE base_tmp_dir = None -> None
    [] base_tmp_dir.type = "Path" -> base_tmp_dir
    [] base_tmp_dir.type = "str" -> PathOfStr(base_tmp_dir.val)
    [] OTHER -> ValueError

\* TmpDirIfNecessary.__init__
TmpDirIfNecessary_init(path, base_tmp_dir, dont_delete_tmp_dir) ==
  LET base == base_tmp_dir_of(base_tmp_dir) IN
  IF base = ValueError THEN Raise(NoObj, <<>>, "ValueError", <<>>)
  ELSE IF path.type \notin {"NoneType", "str", "Path"}
  THEN Raise(NoObj, <<>>, "ValueError", <<>>)
  ELSE Result([base_tmp_dir |-> base,
               _path |-> CASE path = None -> None
                           [] path.type = "str" -> PathOfStr(path.val)
                           [] OTHER -> path,
               dont_delete |-> dont_delete_tmp_dir,
               use_tmp_dir |-> (path = None),
               exited |-> FALSE],
              <<>>, "ok", None, <<>>)

\* The call TmpDirIfNecessary(path, base_tmp_dir, dont_delete_tmp_dir, **kwargs):
\* __init__ declares no other parameter, so any further keyword fails the
\* call with TypeError before the body runs.
TmpDirIfNecessary_new(path, base_tmp_dir, dont_delete_tmp_dir, kwargs) ==
  IF kwargs # {} THEN Raise(NoObj, <<>>, "TypeError", <<>>)
  ELSE TmpDirIfNecessary_init(path, base_tmp_dir, dont_delete_tmp_dir)

\* TmpDirIfNecessary.path without the None test.
TmpDirIfNecessary_path_unguarded(self_, f) ==
  Result(self_, f, "ok", self_._path, <<>>)

\* TmpDirIfNecessary.path
TmpDirIfNecessary_path(self_, f) ==
  IF self_._path = None THEN Raise(self_, f, "RuntimeError", <<>>)
  ELSE Result(self_, f, "ok", self_._path, <<>>)

\* TmpDirIfNecessary.__enter__ that does not create a given directory.
TmpDirIfNecessary_enter_no_mkdir(self_, f, n) ==
  IF self_.exited THEN Raise(self_, f, "RuntimeError", <<>>)
  ELSE IF self_._path = None
  THEN LET dir == IF self_.base_tmp_dir = None THEN None
                  ELSE Str(str(self_.base_tmp_dir))
           r == mkdtemp(f, None, dir, n)
       IN IF r.err = "ok"
          THEN Result([self_ EXCEPT !._path = PathOfStr(r.name)], r.fs, "ok",
                      Self, <<Call("mkdtemp", r.name)>>)
          ELSE Raise(self_, f, r.err, <<Call("mkdtemp", dir)>>)
  ELSE Result(self_, f, "ok", Self, <<>>)

\* TmpDirIfNecessary.__enter__
TmpDirIfNecessary_enter(self_, f, n) ==
  IF self_.exited THEN Raise(self_, f, "RuntimeError", <<>>)
  ELSE IF self_._path = None
  THEN LET dir == IF self_.base_tmp_dir = None THEN None
                  ELSE Str(str(self_.base_tmp_dir))
           r == mkdtemp(f, None, dir, n)
       IN IF r.err = "ok"
          THEN Result([self_ EXCEPT !._path = PathOfStr(r.name)], r.fs, "ok",
                      Self, <<Call("mkdtemp", r.name)>>)
          ELSE Raise(self_, f, r.err, <<Call("mkdtemp", dir)>>)
  ELSE LET r == mkdir(f, self_._path) IN
       Result(self_, r.fs, r.err, IF r.err = "ok" THEN Self ELSE None,
              <<Call("mkdir", str(self_._path))>>)

\* TmpDirIfNecessary.__exit__ removing whatever path it holds.
TmpDirIfNecessary_exit_any_path(self_, f) ==
  IF ~self_.dont_delete
  THEN LET r == rmtree(f, str(self_._path)) IN
       Result(self_, r.fs, r.err, None, <<Call("rmtree", str(self_._path))>>)
  ELSE Result(self_, f, "ok", None, <<>>)

\* TmpDirIfNecessary.__exit__ ignoring dont_delete.
TmpDirIfNecessary_exit_always_delete(self_, f) ==
  IF self_.use_tmp_dir
  THEN LET r == rmtree(f, str(self_._path)) IN
       Result(self_, r.fs, r.err, None, <<Call("rmtree", str(self_._path))>>)
  ELSE Result(self_, f, "ok", None, <<>>)

\* TmpDirIfNecessary.__exit__
TmpDirIfNecessary_exit(self_, f) ==
  IF self_.use_tmp_dir /\ ~self_.dont_delete
  THEN LET r == rmtree(f, str(self_._path)) IN
       Result(self_, r.fs, r.err, None, <<Call("rmtree", str(self_._path))>>)
  ELSE Result(self_, f, "ok", None, <<>>)

---------------------------------------------------------------------------
\* TemporaryDirectory.__init__
TemporaryDirectory_init(base_tmp_dir, prefix, dont_delete) ==
  LET base == base_tmp_dir_of(base_tmp_dir) IN
  IF base = ValueError THEN Raise(NoObj, <<>>, "ValueError", <<>>)
  ELSE Result([exited |-> FALSE,
               _path |-> None,
               base_tmp_dir |-> base,
               prefix |-> prefix,
               dont_delete |-> dont_delete],
              <<>>, "ok", None, <<>>)

\* TemporaryDirectory.__enter__ without the exited test.
TemporaryDirectory_enter_unguarded(self_, f, n) ==
  LET base_tmp_dir == IF self_.base_tmp_dir # None
                      THEN Str(str(self_.base_tmp_dir)) ELSE None
      r == mkdtemp(f, self_.prefix, base_tmp_dir, n)
  IN IF r.err = "ok"
     THEN Result([self_ EXCEPT !._path = PathOfStr(r.name)], r.fs, "ok",
                 Self, <<Call("mkdtemp", r.name)>>)
     ELSE Raise(self_, f, r.err, <<Call("mkdtemp", base_tmp_dir)>>)

\* TemporaryDirectory.__enter__
TemporaryDirectory_enter(self_, f, n) ==
  IF self_.exited THEN Raise(self_, f, "RuntimeError", <<>>)
  ELSE LET base_tmp_dir == IF self_.base_tmp_dir # None
                           THEN Str(str(self_.base_tmp_dir)) ELSE None
           r == mkdtemp(f, self_.prefix, base_tmp_dir, n)
       IN IF r.err = "ok"
          THEN Result([self_ EXCEPT !._path = PathOfStr(r.name)], r.fs, "ok",
                      Self, <<Call("mkdtemp", r.name)>>)
          ELSE Raise(self_, f, r.err, <<Call("mkdtemp", base_tmp_dir)>>)

\* TemporaryDirectory.path
TemporaryDirectory_path(self_, f) ==
  IF self_._path = None THEN Raise(self_, f, "RuntimeError", <<>>)
  ELSE Result(self_, f, "ok", self_._path, <<>>)

\* TemporaryDirectory.close that only sets the flag.
TemporaryDirectory_close_keeping(self_, f) ==
  Result([self_ EXCEPT !.exited = TRUE], f, "ok", None, <<>>)

\* TemporaryDirectory.close without the exited test.
TemporaryDirectory_close_unguarded(self_, f) ==
  IF ~self_.dont_delete /\ self_._path # None
  THEN IF exists(f, self_._path)
       THEN LET r == rmtree(f, str(self_._path)) IN
            Result(IF r.err = "ok" THEN [self_ EXCEPT !.exited = TRUE] ELSE self_,
                   r.fs, r.err, None,
                   <<Call("exists", str(self_._path)),
                     Call("rmtree", str(self_._path))>>)
       ELSE Result([self_ EXCEPT !.exited = TRUE], f, "ok", None,
                   <<Call("exists", str(self_._path))>>)
  ELSE Result([self_ EXCEPT !.exited = TRUE], f, "ok", None, <<>>)

\* TemporaryDirectory.close
TemporaryDirectory_close(self_, f) ==
  IF ~self_.exited
  THEN IF ~self_.dont_delete /\ self_._path # None
       THEN IF exists(f, self_._path)
            THEN LET r == rmtree(f, str(self_._path)) IN
                 Result(IF r.err = "ok" THEN [self_ EXCEPT !.exited = TRUE] ELSE self_,
                        r.fs, r.err, None,
                        <<Call("exists", str(self_._path)),
                          Call("rmtree", str(self_._path))>>)
            ELSE Result([self_ EXCEPT !.exited = TRUE], f, "ok", None,
                        <<Call("exists", str(self_._path))>>)
       ELSE Result([self_ EXCEPT !.exited = TRUE], f, "ok", None, <<>>)
  ELSE Result(self_, f, "ok", None, <<>>)

\* TemporaryDirectory.__exit__
TemporaryDirectory_exit(self_, f) == TemporaryDirectory_close(self_, f)

---------------------------------------------------------------------------
\* NamedTemporaryFile.__init__ (mode, buffering, encoding and newline only
\* shape the stream and are left out).  Field tmpfile is __tmpfile; the
\* stream self.file is the one the wrapper object holds.
NamedTemporaryFile_init(f, suffix, prefix, dir, delete, n) ==
  LET r == tempfile_NamedTemporaryFile(f, suffix, prefix,
                                       IF dir # None THEN Str(str(dir)) ELSE None,
                                       delete, n)
  IN IF r.err = "ok"
     THEN Result([tmpfile |-> r.tmpfile,
                  path |-> PathOfStr(r.tmpfile.name),
                  delete |-> delete],
                 r.fs, "ok", None, <<Call("NamedTemporaryFile", r.tmpfile.name)>>)
     ELSE Raise(NoObj, f, r.err, <<Call("NamedTemporaryFile", dir)>>)

\* NamedTemporaryFile.close that does not forward the request.
NamedTemporaryFile_close_not_forwarded(self_, f, tolerant) ==
  Result(self_, f, "ok", None, <<>>)

\* NamedTemporaryFile.close
NamedTemporaryFile_close(self_, f, tolerant) ==
  LET r == tempfile_close(self_.tmpfile, f, tolerant) IN
  Result([self_ EXCEPT !.tmpfile = r.tmpfile], r.fs, r.err, None,
         IF ~self_.tmpfile.close_called /\ self_.tmpfile.delete
         THEN <<Call("unlink", self_.tmpfile.name)>> ELSE <<>>)

\* NamedTemporaryFile.__enter__
NamedTemporaryFile_enter(self_, f) == Result(self_, f, "ok", Self, <<>>)

\* NamedTemporaryFile.__exit__
NamedTemporaryFile_exit(self_, f, tolerant) == NamedTemporaryFile_close(self_, f, tolerant)

(***************************************************************************)
(* State.                                                                  *)
(***************************************************************************)
VARIABLES
  fs,            \* the filesystem: path -> "absent" | "dir" | "file"
  cls,           \* the class of the constructed instance, "none" before
  self,          \* the instance's fields
  last,          \* the last call on the instance: op, err, ret, calls
  scope,         \* where the caller stands: NotEntered, Entered, Exited
  enter_called,  \* __enter__ was called on the instance (it may have raised)
  released,      \* a scope acquired by __enter__ has been released
  generated      \* the directories the instance's mkdtemp calls created

vars == <<fs, cls, self, last, scope, enter_called, released, generated>>

EmptyFs == [p \in AllPaths |-> IF p = gettempdir.parts THEN "dir" ELSE "absent"]

NoCall == [op |-> "none", err |-> "ok", ret |-> None, calls |-> <<>>]

Init ==
  /\ fs = EmptyFs
  /\ cls = "none"
  /\ self = NoObj
  /\ last = NoCall
  /\ scope = "NotEntered"
  /\ enter_called = FALSE
  /\ released = FALSE
  /\ generated = {}

\* The call's observable outcome.
Observed(op, r) == [op |-> op, err |-> r.err, ret |-> r.ret, calls |-> r.calls]

\* The directories a call's mkdtemp created.
Created(r) ==
  {Split(r.calls[i].arg) : i \in {j \in DOMAIN r.calls :
                                    r.calls[j].fn = "mkdtemp" /\ r.err = "ok"}}

(***************************************************************************)
(* Arguments the caller passes.                                            *)
(***************************************************************************)
ExplicitPath == <<"base", "p">>

PathArgs ==
  {Str(<<"base", "/", "p">>), Str(<<"base", "/", "/", "p", "/">>),
   PathV(ExplicitPath), IntV}

TargetArgs == PathArgs \cup {Str(<<"base">>), PathV(BaseDir), None}

BaseArgs == {None, Str(<<"base", "/">>), PathV(BaseDir), IntV}

PrefixArgs == {None, [type |-> "str", val |-> "job-"]}

SuffixArgs == {None, [type |-> "str", val |-> ".txt"]}

DirArgs == {None, PathV(BaseDir)}

\* Keywords a caller may add to TmpDirIfNecessary(...), as the tests do.
ExtraKwargs == {{}, {"prefix"}, {"suffix"}}

(***************************************************************************)
(* Other programs: they create and remove paths at any time.               *)
(***************************************************************************)
ExtDirs == {gettempdir.parts, BaseDir, ExplicitPath, <<"None">>}

ExtFiles == {ExplicitPath}

ParentIsDir(f, p) == Len(p) = 1 \/ KindOf(f, Parent(p)) = "dir"

ExtMkdir ==
  /\ \E p \in ExtDirs :
       /\ fs[p] = "absent"
       /\ ParentIsDir(fs, p)
       /\ fs' = [fs EXCEPT ![p] = "dir"]
  /\ UNCHANGED <<cls, self, last, scope, enter_called, released, generated>>

ExtWrite ==
  /\ \E p \in ExtFiles :
       /\ fs[p] = "absent"
       /\ ParentIsDir(fs, p)
       /\ fs' = [fs EXCEPT ![p] = "file"]
  /\ UNCHANGED <<cls, self, last, scope, enter_called, released, generated>>

ExtRemove ==
  /\ \E p \in AllPaths :
       /\ fs[p] # "absent"
       /\ fs' = [q \in AllPaths |-> IF IsPrefixOf(p, q) THEN "absent" ELSE fs[q]]
  /\ UNCHANGED <<cls, self, last, scope, enter_called, released, generated>>

(***************************************************************************)
(* The caller: one constructor call, then any method calls in any order.   *)
(***************************************************************************)
\* A constructor call, made while there is no instance: the instance exists
\* only if __init__ returned.
Construct(c, r) ==
  /\ cls' = IF r.err = "ok" THEN c ELSE "none"
  /\ self' = r.self
  /\ last' = Observed("__init__", r)
  /\ UNCHANGED <<fs, scope, enter_called, released, generated>>

\* A method call with outcome r.
Apply(op, r) ==
  /\ self' = r.self
  /\ fs' = r.fs
  /\ last' = Observed(op, r)
  /\ generated' = generated \cup Created(r)
  /\ UNCHANGED cls

\* with-statement bookkeeping of an __enter__ call with outcome r.
Acquire(r) ==
  /\ enter_called' = TRUE
  /\ scope' = IF r.err = "ok" THEN "Entered" ELSE scope
  /\ UNCHANGED released

\* with-statement bookkeeping of an __exit__ or close call.
Release ==
  /\ scope' = IF scope = "Entered" THEN "Exited" ELSE scope
  /\ released' = (released \/ scope = "Entered")
  /\ UNCHANGED enter_called

New_removing_tree ==
  /\ cls = "none"
  /\ \E path \in TargetArgs : Construct("removing_tree", removing_tree_init(path))

Enter_removing_tree ==
  /\ cls = "removing_tree"
  /\ Apply("__enter__", removing_tree_enter(self, fs))
  /\ Acquire(removing_tree_enter(self, fs))

Exit_removing_tree ==
  /\ cls = "removing_tree"
  /\ Apply("__exit__", removing_tree_exit(self, fs))
  /\ Release

New_TmpDirIfNecessary ==
  /\ cls = "none"
  /\ \E path \in PathArgs \cup {None}, base_tmp_dir \in BaseArgs,
        dont_delete_tmp_dir \in BOOLEAN, kwargs \in ExtraKwargs :
       Construct("TmpDirIfNecessary",
                 TmpDirIfNecessary_new(path, base_tmp_dir, dont_delete_tmp_dir, kwargs))

\* The random names an __enter__ of a TmpDirIfNecessary may draw.
TmpDirIfNecessary_draws ==
  IF ~self.exited /\ self._path = None
  THEN FreshNames(fs, None,
                  IF self.base_tmp_dir = None THEN None ELSE Str(str(self.base_tmp_dir)))
  ELSE {"-"}

Enter_TmpDirIfNecessary ==
  /\ cls = "TmpDirIfNecessary"
  /\ \E n \in TmpDirIfNecessary_draws :
       /\ Apply("__enter__", TmpDirIfNecessary_enter(self, fs, n))
       /\ Acquire(TmpDirIfNecessary_enter(self, fs, n))

Exit_TmpDirIfNecessary ==
  /\ cls = "TmpDirIfNecessary"
  /\ Apply("__exit__", TmpDirIfNecessary_exit(self, fs))
  /\ Release

Path_TmpDirIfNecessary ==
  /\ cls = "TmpDirIfNecessary"
  /\ Apply("path", TmpDirIfNecessary_path(self, fs))
  /\ UNCHANGED <<scope, enter_called, released>>

New_TemporaryDirectory ==
  /\ cls = "none"
  /\ \E base_tmp_dir \in BaseArgs, prefix \in PrefixArgs, dont_delete \in BOOLEAN :
       Construct("TemporaryDirectory",
                 TemporaryDirectory_init(base_tmp_dir, prefix, dont_delete))

\* The random names an __enter__ of a TemporaryDirectory may draw.
TemporaryDirectory_draws ==
  IF ~self.exited
  THEN FreshNames(fs, self.prefix,
                  IF self.base_tmp_dir = None THEN None ELSE Str(str(self.base_tmp_dir)))
  ELSE {"-"}

Enter_TemporaryDirectory ==
  /\ cls = "TemporaryDirectory"
  /\ \E n \in TemporaryDirectory_draws :
       /\ Apply("__enter__", TemporaryDirectory_enter(self, fs, n))
       /\ Acquire(TemporaryDirectory_enter(self, fs, n))

Close_TemporaryDirectory ==
  /\ cls = "TemporaryDirectory"
  /\ Apply("close", TemporaryDirectory_close(self, fs))
  /\ Release

Exit_TemporaryDirectory ==
  /\ cls = "TemporaryDirectory"
  /\ Apply("__exit__", TemporaryDirectory_exit(self, fs))
  /\ Release

Path_TemporaryDirectory ==
  /\ cls = "TemporaryDirectory"
  /\ Apply("path", TemporaryDirectory_path(self, fs))
  /\ UNCHANGED <<scope, enter_called, released>>

\* The constructor of NamedTemporaryFile creates the file.
New_NamedTemporaryFile ==
  /\ cls = "none"
  /\ \E suffix \in SuffixArgs, prefix \in PrefixArgs, dir \in DirArgs, delete \in BOOLEAN :
       \E n \in FreshFileNames(fs, prefix, suffix,
                               IF dir # None THEN Str(str(dir)) ELSE None) :
         LET r == NamedTemporaryFile_init(fs, suffix, prefix, dir, delete, n) IN
         /\ cls' = IF r.err = "ok" THEN "NamedTemporaryFile" ELSE "none"
         /\ self' = r.self
         /\ fs' = r.fs
         /\ last' = Observed("__init__", r)
         /\ UNCHANGED <<scope, enter_called, released, generated>>

Enter_NamedTemporaryFile ==
  /\ cls = "NamedTemporaryFile"
  /\ Apply("__enter__", NamedTemporaryFile_enter(self, fs))
  /\ Acquire(NamedTemporaryFile_enter(self, fs))

Close_NamedTemporaryFile ==
  /\ cls = "NamedTemporaryFile"
  /\ \E tolerant \in BOOLEAN :
       Apply("close", NamedTemporaryFile_close(self, fs, tolerant))
  /\ Release

Exit_NamedTemporaryFile ==
  /\ cls = "NamedTemporaryFile"
  /\ \E tolerant \in BOOLEAN :
       Apply("__exit__", NamedTemporaryFile_exit(self, fs, tolerant))
  /\ Release

Next ==
  \/ ExtMkdir
  \/ ExtWrite
  \/ ExtRemove
  \/ New_removing_tree
  \/ Enter_removing_tree
  \/ Exit_removing_tree
  \/ New_TmpDirIfNecessary
  \/ Enter_TmpDirIfNecessary
  \/ Exit_TmpDirIfNecessary
  \/ Path_TmpDirIfNecessary
  \/ New_TemporaryDirectory
  \/ Enter_TemporaryDirectory
  \/ Close_TemporaryDirectory
  \/ Exit_TemporaryDirectory
  \/ Path_TemporaryDirectory
  \/ New_NamedTemporaryFile
  \/ Enter_NamedTemporaryFile
  \/ Close_NamedTemporaryFile
  \/ Exit_NamedTemporaryFile

Spec == Init /\ [][Next]_vars

TypeOK ==
  /\ fs \in [AllPaths -> Kinds]
  /\ \A p \in AllPaths : fs[p] # "absent" => ParentIsDir(fs, p)
  /\ cls \in {"none", "removing_tree", "TmpDirIfNecessary", "TemporaryDirectory",
             "NamedTemporaryFile"}
  /\ scope \in {"NotEntered", "Entered", "Exited"}
  /\ enter_called \in BOOLEAN
  /\ released \in BOOLEAN
  /\ generated \subseteq AllPaths

(***************************************************************************)
(* Properties.                                                             *)
(***************************************************************************)
\* The platform calls the last call made, by name.
Fns(l) == {l.calls[i].fn : i \in DOMAIN l.calls}

ExplicitInstance == cls = "TmpDirIfNecessary" /\ ~self.use_tmp_dir

\* C1: a TmpDirIfNecessary built with an explicit path P, whatever
\* dont_delete_tmp_dir is: an __enter__ that returns leaves P a directory
\* (missing parents created; P already a directory is tolerated and nothing
\* changes), __exit__ raises nothing and leaves the filesystem as it was, and no
\* call on the instance issues a removal or turns an existing P into an absent
\* one.
C1_ExplicitPathNeverRemoved ==
  [][ExplicitInstance =>
       LET P == self._path.parts IN
       /\ Enter_TmpDirIfNecessary /\ last'.err = "ok" =>
            /\ fs'[P] = "dir"
            /\ \A a \in Ancestors(P) : fs'[a] = "dir"
       /\ Enter_TmpDirIfNecessary /\ fs[P] = "dir" => last'.err = "ok" /\ fs' = fs
       /\ Enter_TmpDirIfNecessary /\ fs[P] = "absent"
            /\ (\A a \in Ancestors(P) : fs[a] # "file") => last'.err = "ok"
       /\ Exit_TmpDirIfNecessary => last'.err = "ok" /\ fs' = fs
       /\ Enter_TmpDirIfNecessary \/ Exit_TmpDirIfNecessary \/ Path_TmpDirIfNecessary =>
            /\ "rmtree" \notin Fns(last')
            /\ fs[P] # "absent" => fs'[P] # "absent"
            /\ self'._path = self._path
     ]_vars

\* C1 witness: an explicit-path instance with deletion not suppressed has been
\* entered and exited, the parent of P was created by __enter__, and P is
\* still a directory.
C1_Witness ==
  /\ ExplicitInstance
  /\ ~self.dont_delete
  /\ released
  /\ last.op = "__exit__"
  /\ fs[self._path.parts] = "dir"

GeneratedInstance == cls = "TmpDirIfNecessary" /\ self.use_tmp_dir

\* C2: a TmpDirIfNecessary built with path=None: the __exit__ that follows a
\* successful __enter__ leaves the generated directory absent when dont_delete
\* is False, and leaves the filesystem untouched (so the directory stays) when
\* dont_delete is True.
C2_GeneratedRemovedUnlessKept ==
  [][GeneratedInstance /\ scope = "Entered" /\ Exit_TmpDirIfNecessary =>
       /\ self._path # None
       /\ self._path.parts \in generated
       /\ ~self.dont_delete => fs'[self._path.parts] = "absent"
       /\ self.dont_delete => fs' = fs /\ last'.err = "ok"
     ]_vars

\* C2 witness: the generated directory was removed by the __exit__ after an
\* __enter__.
C2_Witness ==
  /\ GeneratedInstance
  /\ ~self.dont_delete
  /\ scope = "Exited"
  /\ last.op = "__exit__"
  /\ last.err = "ok"
  /\ self._path.parts \in generated
  /\ fs[self._path.parts] = "absent"

\* C3: a TemporaryDirectory: an __enter__ that returns leaves the directory it
\* generated in place; the first __exit__ or close after it leaves that
\* directory absent when dont_delete is False and the filesystem untouched
\* when dont_delete is True.
C3_TemporaryDirectoryLifecycle ==
  [][cls = "TemporaryDirectory" =>
       /\ Enter_TemporaryDirectory /\ last'.err = "ok" =>
            /\ self'._path # None
            /\ self'._path.parts \in generated'
            /\ fs[self'._path.parts] = "absent"
            /\ fs'[self'._path.parts] = "dir"
       /\ (Exit_TemporaryDirectory \/ Close_TemporaryDirectory) /\ scope = "Entered" =>
            /\ self._path # None
            /\ ~self.dont_delete => fs'[self._path.parts] = "absent"
            /\ self.dont_delete => fs' = fs /\ last'.err = "ok"
     ]_vars

\* C3 witness: a TemporaryDirectory with dont_delete False was entered, its
\* directory existed, and the __exit__ removed it.
C3_Witness ==
  /\ cls = "TemporaryDirectory"
  /\ ~self.dont_delete
  /\ scope = "Exited"
  /\ last.op = "__exit__"
  /\ "rmtree" \in Fns(last)
  /\ fs[self._path.parts] = "absent"

\* C4: TemporaryDirectory.close is idempotent: a close that returns sets
\* exited; a close on an exited instance raises nothing, makes no platform
\* call and changes neither the instance nor the filesystem; so closing again
\* right after any close gives the state the first close gave, and a removal
\* is issued only by a close that finds exited unset.
C4_CloseIdempotent ==
  [][Close_TemporaryDirectory =>
       /\ last'.err = "ok" => self'.exited
       /\ self.exited =>
            /\ self' = self
            /\ fs' = fs
            /\ last'.err = "ok"
            /\ last'.calls = <<>>
       /\ last'.err = "ok" =>
          LET again == TemporaryDirectory_close(self', fs') IN
            /\ again.self = self'
            /\ again.fs = fs'
            /\ again.err = "ok"
            /\ again.calls = <<>>
     ]_vars

\* C4 witness: close was called on an instance that was entered, deletes on
\* close and was already exited: the call made no platform call.
C4_Witness ==
  /\ cls = "TemporaryDirectory"
  /\ ~self.dont_delete
  /\ self._path # None
  /\ self.exited
  /\ last.op = "close"
  /\ last.err = "ok"
  /\ last.calls = <<>>

\* C5 (as claimed): on a TmpDirIfNecessary whose scope has been released,
\* every later __enter__ raises RuntimeError.
C5_EnterAfterReleaseFails ==
  cls = "TmpDirIfNecessary" /\ released /\ last.op = "__enter__"
    => last.err = "RuntimeError"

\* C6: __enter__ on a TemporaryDirectory whose exited flag is set raises
\* RuntimeError, makes no platform call, and leaves the instance, the
\* filesystem and the set of allocated directories unchanged.
C6_EnterOnExitedFails ==
  [][cls = "TemporaryDirectory" /\ self.exited /\ Enter_TemporaryDirectory =>
       /\ last'.err = "RuntimeError"
       /\ last'.calls = <<>>
       /\ self' = self
       /\ fs' = fs
       /\ generated' = generated
     ]_vars

\* C6 witness: __enter__ was refused on an exited TemporaryDirectory.
C6_Witness ==
  /\ cls = "TemporaryDirectory"
  /\ self.exited
  /\ last.op = "__enter__"
  /\ last.err = "RuntimeError"

\* The last call read the path property of a TmpDirIfNecessary or a
\* TemporaryDirectory on which __enter__ was never called.
PathReadBeforeEnter ==
  /\ cls \in {"TmpDirIfNecessary", "TemporaryDirectory"}
  /\ ~enter_called
  /\ last.op = "path"

\* C7 (as claimed): reading path before any __enter__ raises RuntimeError, for
\* every combination of constructor arguments.
C7_PathBeforeEnterAlwaysFails ==
  PathReadBeforeEnter => last.err = "RuntimeError"

\* C7 (amended): reading path before any __enter__ raises RuntimeError on
\* every TemporaryDirectory and on every TmpDirIfNecessary built with
\* path=None; on a TmpDirIfNecessary built with an explicit path it returns
\* that path.
C7_PathBeforeEnterFailsUnlessExplicit ==
  PathReadBeforeEnter =>
    IF ExplicitInstance
    THEN last.err = "ok" /\ last.ret = self._path /\ last.ret.parts = ExplicitPath
    ELSE last.err = "RuntimeError" /\ self._path = None

\* C7 witness: path was read on a never-entered TmpDirIfNecessary built with
\* path=None and the read raised.
C7_Witness ==
  /\ PathReadBeforeEnter
  /\ GeneratedInstance
  /\ last.err = "RuntimeError"

\* C8: removing_tree: neither the constructor nor __enter__ makes a platform
\* call or changes the filesystem; __enter__ returns the instance's path and
\* leaves the instance as it was; among the instance's calls only __exit__
\* issues a removal.
C8_OnlyExitRemoves ==
  [][/\ New_removing_tree => fs' = fs /\ last'.calls = <<>>
     /\ cls = "removing_tree" /\ Enter_removing_tree =>
          /\ fs' = fs
          /\ last'.calls = <<>>
          /\ last'.err = "ok"
          /\ last'.ret = self.path
          /\ self' = self
     /\ cls' = "removing_tree" /\ "rmtree" \in Fns(last') => last'.op = "__exit__"
    ]_vars

\* C8 witness: a removing_tree was entered and its target directory, with
\* content, is still there.
C8_Witness ==
  /\ cls = "removing_tree"
  /\ last.op = "__enter__"
  /\ self.path.parts = BaseDir
  /\ fs[BaseDir] = "dir"
  /\ fs[ExplicitPath] # "absent"

\* C9 (as claimed): whenever the target of a removing_tree exists at
\* __exit__, directory tree or regular file, __exit__ raises nothing and the
\* path does not exist afterwards.
C9_ExitRemovesWhateverExists ==
  [][cls = "removing_tree" /\ exists(fs, self.path) /\ Exit_removing_tree =>
       /\ last'.err = "ok"
       /\ ~exists(fs', self.path)
     ]_vars

\* C10: when the target of a removing_tree does not exist at __exit__,
\* __exit__ raises nothing, issues no removal and leaves the filesystem and
\* the instance as they were.
C10_ExitOnMissingIsNoOp ==
  [][cls = "removing_tree" /\ ~exists(fs, self.path) /\ Exit_removing_tree =>
       /\ last'.err = "ok"
       /\ "rmtree" \notin Fns(last')
       /\ fs' = fs
       /\ self' = self
     ]_vars

\* C10 witness: the scope of a removing_tree was entered and released, the
\* __exit__ only tested for existence, and the target's parent is there, so
\* the target itself was missing.
C10_Witness ==
  /\ cls = "removing_tree"
  /\ scope = "Exited"
  /\ last.op = "__exit__"
  /\ last.err = "ok"
  /\ Fns(last) = {"exists"}
  /\ self.path.parts = ExplicitPath
  /\ fs[BaseDir] = "dir"

\* The path the handle exposes.
HandlePath == IF cls \in {"removing_tree", "NamedTemporaryFile"} THEN self.path ELSE self._path

\* An __enter__ of any of the four classes.
AnyEnter ==
  \/ Enter_removing_tree
  \/ Enter_TmpDirIfNecessary
  \/ Enter_TemporaryDirectory
  \/ Enter_NamedTemporaryFile

\* C11 (as claimed): for all four classes, right after an __enter__ that
\* returns, the handle's path exists on disk.
C11_PathExistsAfterEveryEnter ==
  [][AnyEnter /\ last'.err = "ok" => exists(fs', HandlePath')]_vars

\* C11 (amended): right after an __enter__ that returns, the path of a
\* TmpDirIfNecessary or a TemporaryDirectory is a directory on disk; the path
\* of a NamedTemporaryFile is a file on disk right after its constructor
\* returns; removing_tree.__enter__ and NamedTemporaryFile.__enter__ raise
\* nothing and leave the filesystem as it is, so their path exists afterwards
\* only if it existed before.
C11_PathExistsAfterCreatingEnter ==
  [][/\ (Enter_TmpDirIfNecessary \/ Enter_TemporaryDirectory) /\ last'.err = "ok" =>
          /\ self'._path # None
          /\ fs'[self'._path.parts] = "dir"
     /\ cls = "none" /\ cls' = "NamedTemporaryFile" =>
          /\ fs[self'.path.parts] = "absent"
          /\ fs'[self'.path.parts] = "file"
     /\ Enter_removing_tree \/ Enter_NamedTemporaryFile =>
          /\ last'.err = "ok"
          /\ fs' = fs
          /\ HandlePath' = HandlePath
    ]_vars

\* C11 witness: a TmpDirIfNecessary built with an explicit path was entered
\* and the path, absent parent included, is now a directory.
C11_Witness ==
  /\ ExplicitInstance
  /\ scope = "Entered"
  /\ last.op = "__enter__"
  /\ last.err = "ok"
  /\ Fns(last) = {"mkdir"}
  /\ fs[self._path.parts] = "dir"

\* C12 (as claimed): on a TmpDirIfNecessary or a TemporaryDirectory on which
\* __enter__ was never called, __exit__ or close raises an invalid-state
\* error (RuntimeError).
C12_ReleaseBeforeEnterFails ==
  [][(Exit_TmpDirIfNecessary \/ Exit_TemporaryDirectory \/ Close_TemporaryDirectory)
       /\ ~enter_called => last'.err = "RuntimeError"]_vars

\* C13 (as claimed): on a TmpDirIfNecessary or a TemporaryDirectory that is
\* entered and not yet released, a second __enter__ raises an invalid-state
\* error (RuntimeError).
C13_SecondEnterFails ==
  [][(Enter_TmpDirIfNecessary \/ Enter_TemporaryDirectory)
       /\ scope = "Entered" => last'.err = "RuntimeError"]_vars

\* The instance deletes on release: a TmpDirIfNecessary built with path=None
\* or a TemporaryDirectory, deletion not suppressed.
DeletingInstance ==
  /\ \/ GeneratedInstance
     \/ cls = "TemporaryDirectory"
  /\ ~self.dont_delete

\* C14 (as claimed): when the generated directory of a deleting instance was
\* removed by another program between __enter__ and the release, the release
\* raises nothing and changes nothing on the filesystem.
C14_ReleaseToleratesMissing ==
  [][/\ DeletingInstance
     /\ scope = "Entered"
     /\ self._path # None
     /\ ~exists(fs, self._path)
     /\ Exit_TmpDirIfNecessary \/ Exit_TemporaryDirectory \/ Close_TemporaryDirectory
     => last'.err = "ok" /\ fs' = fs]_vars

\* C15 (as claimed): TmpDirIfNecessary(path=None, prefix=...) and
\* TmpDirIfNecessary(path=None, suffix=...) give an instance (which can then
\* be entered, the generated name starting with the prefix or ending with the
\* suffix).
C15_PrefixOrSuffixAccepted ==
  [][\A kwargs \in ExtraKwargs \ {{}} :
       /\ cls = "none"
       /\ \E base_tmp_dir \in BaseArgs, dont_delete_tmp_dir \in BOOLEAN :
            Construct("TmpDirIfNecessary",
                      TmpDirIfNecessary_new(None, base_tmp_dir, dont_delete_tmp_dir, kwargs))
       => last'.err = "ok" /\ cls' = "TmpDirIfNecessary"]_vars

\* C16: NamedTemporaryFile: when the constructor returns, the file at path
\* has just been created; __enter__ raises nothing and changes neither the
\* instance nor the filesystem; the first close or __exit__ leaves the file
\* absent when delete is True and leaves the filesystem untouched, raising
\* nothing, when delete is False.
C16_NamedTemporaryFileLifecycle ==
  [][/\ cls = "none" /\ cls' = "NamedTemporaryFile" =>
          /\ fs[self'.path.parts] = "absent"
          /\ fs'[self'.path.parts] = "file"
          /\ ~self'.tmpfile.close_called
          /\ scope' = "NotEntered"
     /\ Enter_NamedTemporaryFile =>
          /\ last'.err = "ok"
          /\ fs' = fs
          /\ self' = self
     /\ (Close_NamedTemporaryFile \/ Exit_NamedTemporaryFile)
          /\ ~self.tmpfile.close_called =>
          /\ self.delete => fs'[self.path.parts] = "absent"
          /\ ~self.delete => fs' = fs /\ last'.err = "ok"
    ]_vars

\* C16 witness: a NamedTemporaryFile with delete True was closed and the
\* close unlinked its file.
C16_Witness ==
  /\ cls = "NamedTemporaryFile"
  /\ self.delete
  /\ last.op \in {"close", "__exit__"}
  /\ last.err = "ok"
  /\ Fns(last) = {"unlink"}
  /\ fs[self.path.parts] = "absent"

\* A value that is neither None, a str nor a pathlib.Path.
Unrecognized(v) == v.type \notin {"NoneType", "str", "Path"}

\* What the instance stores as path and base directory is None or a Path.
StoredPathsRecognized ==
  /\ cls = "removing_tree" => self.path.type = "Path"
  /\ cls = "TmpDirIfNecessary" =>
       /\ self._path.type \in {"NoneType", "Path"}
       /\ self.base_tmp_dir.type \in {"NoneType", "Path"}
  /\ cls = "TemporaryDirectory" => self.base_tmp_dir.type \in {"NoneType", "Path"}

\* The constructor call raised ValueError: no instance, no platform call, no
\* change of the filesystem.
RejectedAtConstruction ==
  /\ last'.err = "ValueError"
  /\ last'.calls = <<>>
  /\ cls' = "none"
  /\ fs' = fs

\* C17: a constructor of removing_tree, TmpDirIfNecessary or
\* TemporaryDirectory given a path or base_tmp_dir that is neither None (where
\* allowed), a str nor a Path raises ValueError, making no platform call and
\* giving no instance; given recognized values it raises no ValueError; so no
\* instance ever holds an unrecognized path for __enter__ or __exit__ to meet.
C17_UnrecognizedArgumentRejected ==
  [][/\ \A path \in TargetArgs :
          cls = "none" /\ Construct("removing_tree", removing_tree_init(path)) =>
            IF Unrecognized(path) \/ path = None
            THEN RejectedAtConstruction ELSE last'.err = "ok"
     /\ \A path \in PathArgs \cup {None}, base_tmp_dir \in BaseArgs,
           dont_delete_tmp_dir \in BOOLEAN :
          /\ cls = "none"
          /\ Construct("TmpDirIfNecessary",
                       TmpDirIfNecessary_new(path, base_tmp_dir, dont_delete_tmp_dir, {}))
          => IF Unrecognized(path) \/ Unrecognized(base_tmp_dir)
             THEN RejectedAtConstruction ELSE last'.err = "ok"
     /\ \A base_tmp_dir \in BaseArgs, prefix \in PrefixArgs, dont_delete \in BOOLEAN :
          /\ cls = "none"
          /\ Construct("TemporaryDirectory",
                       TemporaryDirectory_init(base_tmp_dir, prefix, dont_delete))
          => IF Unrecognized(base_tmp_dir)
             THEN RejectedAtConstruction ELSE last'.err = "ok"
     /\ StoredPathsRecognized'
    ]_vars

\* C17 witness: a constructor call was rejected with ValueError and there is
\* no instance.
C17_Witness ==
  /\ cls = "none"
  /\ last.op = "__init__"
  /\ last.err = "ValueError"
  /\ last.calls = <<>>

\* C18 (as claimed): once a release of a TemporaryDirectory with dont_delete
\* False has set exited, every directory the instance allocated is absent.
C18_NoLeakAfterRelease ==
  [][/\ cls = "TemporaryDirectory"
     /\ ~self.dont_delete
     /\ Exit_TemporaryDirectory \/ Close_TemporaryDirectory
     /\ self'.exited
     => \A g \in generated : fs'[g] = "absent"]_vars

\* C19 (as claimed): every removal a TmpDirIfNecessary issues targets a
\* directory that the same instance generated at an earlier __enter__.
C19_RemovesOnlyGenerated ==
  cls = "TmpDirIfNecessary" =>
    \A i \in DOMAIN last.calls :
      last.calls[i].fn = "rmtree" => Split(last.calls[i].arg) \in generated

\* C20 (as claimed): after __enter__ and a first __exit__ of a
\* TmpDirIfNecessary, a second __exit__ raises nothing and changes nothing on
\* the filesystem, whatever the path and dont_delete_tmp_dir are.
C20_SecondExitIsNoOp ==
  [][cls = "TmpDirIfNecessary" /\ scope = "Exited" /\ Exit_TmpDirIfNecessary
       => last'.err = "ok" /\ fs' = fs]_vars

\* C21 (as claimed): once the path of an instance of any of the four classes
\* is resolved (not None), no later __enter__, __exit__ or close of that
\* instance changes its value.
C21_PathImmutableOnceResolved ==
  [][cls # "none" /\ cls' = cls /\ HandlePath # None
       => HandlePath' = HandlePath]_vars

====
